---- MODULE Spec2Model ----
(***************************************************************************)
(* Model of src/elasticsearch/aggregates/builders/piplines.rs: the two     *)
(* pipeline-aggregation builders avg_pipeline_agg and                      *)
(* bucket_script_pipeline_agg, the GapPolicy enum and the serde            *)
(* serialisation of the two local structs into a serde_json value.         *)
(***************************************************************************)
EXTENDS Integers, Sequences, FiniteSets, TLC

(* ------------------------------ bounds -------------------------------- *)

\* longest bucket_path_var / bucket_path_param sequence that is enumerated
MaxLen == 2

(* ------------------------------ inputs -------------------------------- *)

\* &str values handed to avg_pipeline_agg as bucket_path
BucketPaths == {"", "b", "my_bucket>avg"}
\* &str values handed to bucket_script_pipeline_agg as script
Scripts == {"x", "params.a + params.b"}
\* elements of bucket_path_var
Names == {"a", "b", "c"}
\* elements of bucket_path_param
Paths == {"p1", "p2"}
\* i64 values handed in as format
Formats == {-1, 0, 2}

(* --------------------------- Option<T> -------------------------------- *)

None == [some |-> FALSE]
Some(v) == [some |-> TRUE, val |-> v]
OptionOf(S) == {None} \cup {Some(v) : v \in S}

\* Option::is_none, the predicate named by skip_serializing_if
Option_is_none(o) == ~o.some

(* ----------------------------- GapPolicy ------------------------------ *)

\* enum GapPolicy { Skip, InsertZeros }: the variants by discriminant
Skip == 0
InsertZeros == 1
GapPolicy == {Skip, InsertZeros}

\* a rename_all = "snake_case" attribute on the enum, which the source lacks
VariantNameSnakeCase(gp) == IF gp = Skip THEN "skip" ELSE "insert_zeros"

\* #[derive(Serialize)] on a unit-variant enum: serialize_unit_variant with
\* the variant's identifier, unrenamed
VariantName(gp) == IF gp = Skip THEN "Skip" ELSE "InsertZeros"

(* ------------------------- serde_json::Value -------------------------- *)

JNull == [t |-> "Null"]
JString(s) == [t |-> "String", v |-> s]
JNumber(n) == [t |-> "Number", v |-> n]
JObject(m) == [t |-> "Object", v |-> m]
JArray(s) == [t |-> "Array", v |-> s]

\* an empty map (HashMap::new(), serde_json::Map::new())
EmptyMap == [k \in {} |-> JNull]

\* serde_json::Map::insert: the value stored under an existing key is replaced
MapInsert(m, k, v) == [x \in (DOMAIN m) \cup {k} |-> IF x = k THEN v ELSE m[x]]

(* ------------------------------- state -------------------------------- *)

VARIABLES
    pc,           \* "called": arguments bound, body not run; "returned"; "panicked"
    call,         \* the function called and its arguments (lines 19-23, 46-52)
    bucket_path,  \* the local HashMap of line 65: None until HashMap::new()
    iter_order,   \* the order in which the HashMap's iterator yielded its keys
    result,       \* None, or Some(the value inside the JsonB of lines 38, 76)
    memo          \* an earlier call and its outcome, kept by the caller for comparison

vars == <<pc, call, bucket_path, iter_order, result, memo>>

(* ------------------------------ call sets ----------------------------- *)

\* all sequences over S of length 0..n
SeqsUpTo(S, n) == UNION {[1..k -> S] : k \in 0..n}

\* avg_pipeline_agg(bucket_path, gap_policy, format)
AvgCalls(BP, GP, FM) ==
    [fn : {"avg_pipeline_agg"}, bucket_path : BP,
     gap_policy : OptionOf(GP), format : OptionOf(FM)]

\* bucket_script_pipeline_agg(script, bucket_path_var, bucket_path_param, gap_policy, format)
BucketScriptCalls(SC, VS, PS, GP, FM) ==
    [fn : {"bucket_script_pipeline_agg"}, script : SC,
     bucket_path_var : VS, bucket_path_param : PS,
     gap_policy : OptionOf(GP), format : OptionOf(FM)]

AllCalls ==
    AvgCalls(BucketPaths, GapPolicy, Formats)
    \cup BucketScriptCalls(Scripts, SeqsUpTo(Names, MaxLen), SeqsUpTo(Paths, MaxLen),
                           GapPolicy, Formats)

(* --------------------------- serialisation ---------------------------- *)

\* Serialize for Option<GapPolicy>: Some(v) serialises v, None serialises null
SerializeOptGapPolicy(o) == IF o.some THEN JString(VariantName(o.val)) ELSE JNull

\* Serialize for Option<i64>
SerializeOptI64(o) == IF o.some THEN JNumber(o.val) ELSE JNull

\* SerializeStruct::serialize_field unless the field's skip_serializing_if holds
SerializeField(obj, key, skip, value) ==
    IF skip THEN obj ELSE MapInsert(obj, key, value)

\* AvgBucket without the skip_serializing_if attributes
SerializeAvgBucketNoSkip(b) ==
    JObject(MapInsert(MapInsert(MapInsert(EmptyMap,
        "bucket_path", JString(b.bucket_path)),
        "gap_policy", SerializeOptGapPolicy(b.gap_policy)),
        "format", SerializeOptI64(b.format)))

\* AvgBucket with format serialised through a truthiness test (0 taken as absent)
SerializeAvgBucketZeroAbsent(b) ==
    LET o1 == SerializeField(EmptyMap, "bucket_path", FALSE, JString(b.bucket_path))
        o2 == SerializeField(o1, "gap_policy", Option_is_none(b.gap_policy),
                             SerializeOptGapPolicy(b.gap_policy))
        o3 == SerializeField(o2, "format",
                             Option_is_none(b.format) \/ b.format.val = 0,
                             SerializeOptI64(b.format))
    IN  JObject(o3)

\* #[derive(Serialize)] struct AvgBucket: the fields in declaration order
SerializeAvgBucket(b) ==
    LET o1 == SerializeField(EmptyMap, "bucket_path", FALSE, JString(b.bucket_path))
        o2 == SerializeField(o1, "gap_policy", Option_is_none(b.gap_policy),
                             SerializeOptGapPolicy(b.gap_policy))
        o3 == SerializeField(o2, "format", Option_is_none(b.format),
                             SerializeOptI64(b.format))
    IN  JObject(o3)

\* the HashMap serialised as the list of its keys in iteration order
SerializeHashMapAsList(m, ord) == JArray(ord)

RECURSIVE SerializeEntries(_, _, _)
\* serialize_entry for each (key, value) the iterator yields, in its order
SerializeEntries(obj, m, ord) ==
    IF ord = <<>> THEN obj
    ELSE SerializeEntries(MapInsert(obj, Head(ord), JString(m[Head(ord)])), m, Tail(ord))

\* Serialize for HashMap<&str, &str>: a serde_json object keyed by the map's keys
SerializeHashMap(m, ord) == JObject(SerializeEntries(EmptyMap, m, ord))

\* BucketScript without the skip_serializing_if attributes
SerializeBucketScriptNoSkip(b, ord) ==
    JObject(MapInsert(MapInsert(MapInsert(MapInsert(EmptyMap,
        "script", JString(b.script)),
        "bucket_path", SerializeHashMap(b.bucket_path, ord)),
        "gap_policy", SerializeOptGapPolicy(b.gap_policy)),
        "format", SerializeOptI64(b.format)))

\* #[derive(Serialize)] struct BucketScript: the fields in declaration order
SerializeBucketScript(b, ord) ==
    LET o1 == SerializeField(EmptyMap, "script", FALSE, JString(b.script))
        o2 == SerializeField(o1, "bucket_path", FALSE,
                             SerializeHashMap(b.bucket_path, ord))
        o3 == SerializeField(o2, "gap_policy", Option_is_none(b.gap_policy),
                             SerializeOptGapPolicy(b.gap_policy))
        o4 == SerializeField(o3, "format", Option_is_none(b.format),
                             SerializeOptI64(b.format))
    IN  JObject(o4)

\* json!{ { name: value } }: an object with the single key name
JsonWrap(name, value) == JObject(MapInsert(EmptyMap, name, value))

(* ------------------------ bucket_path construction -------------------- *)

\* a check that lets a shorter variable list through
ArityMismatchOneSided(var, param) == Len(var) > Len(param)

\* bucket_path_var.len() != bucket_path_param.len()
ArityMismatch(var, param) == Len(var) # Len(param)

Min(a, b) == IF a <= b THEN a ELSE b

\* a zip that stops one pair early
ZipDropLast(var, param) ==
    [i \in 1..(Min(Len(var), Len(param)) - 1) |-> <<var[i], param[i]>>]

\* bucket_path_var.iter().zip(bucket_path_param.iter()): pairs by index, as
\* many as the shorter sequence has
Zip(var, param) == [i \in 1..Min(Len(var), Len(param)) |-> <<var[i], param[i]>>]

\* an insert that keeps the value already stored (entry().or_insert())
HashMapInsertKeepFirst(m, k, v) ==
    [x \in (DOMAIN m) \cup {k} |-> IF x \in DOMAIN m THEN m[x] ELSE v]

\* HashMap::insert: the value stored under an existing key is replaced
HashMapInsert(m, k, v) == [x \in (DOMAIN m) \cup {k} |-> IF x = k THEN v ELSE m[x]]

RECURSIVE InsertLoop(_, _)
\* for (var, param) in zip { bucket_path.insert(*var, *param); }
InsertLoop(m, pairs) ==
    IF pairs = <<>> THEN m
    ELSE InsertLoop(HashMapInsert(m, Head(pairs)[1], Head(pairs)[2]), Tail(pairs))

\* the orders in which a HashMap with key set K can yield its keys: the hasher
\* is seeded per map (RandomState), so every permutation is possible
IterOrders(K) ==
    {s \in [1..Cardinality(K) -> K] : \A i, j \in DOMAIN s : s[i] = s[j] => i = j}

(* ------------------------------ actions ------------------------------- *)

\* the state right after the host has bound the arguments of a call in calls
InitOver(calls) ==
    /\ call \in calls
    /\ pc = "called"
    /\ bucket_path = None
    /\ iter_order = <<>>
    /\ result = None
    /\ memo = None

Init == InitOver(AllCalls)

\* avg_pipeline_agg with a validation step that rejects an empty bucket_path
avg_pipeline_agg_RejectEmpty ==
    /\ pc = "called"
    /\ call.fn = "avg_pipeline_agg"
    /\ IF call.bucket_path = ""
       THEN /\ pc' = "panicked"
            /\ UNCHANGED result
       ELSE /\ result' = Some(JsonWrap("avg_bucket", SerializeAvgBucket(
                               [bucket_path |-> call.bucket_path,
                                gap_policy |-> call.gap_policy,
                                format |-> call.format])))
            /\ pc' = "returned"
    /\ UNCHANGED <<call, bucket_path, iter_order, memo>>

avg_pipeline_agg ==
    /\ pc = "called"
    /\ call.fn = "avg_pipeline_agg"
    /\ LET bucket == [bucket_path |-> call.bucket_path,
                      gap_policy |-> call.gap_policy,
                      format |-> call.format]
       IN  result' = Some(JsonWrap("avg_bucket", SerializeAvgBucket(bucket)))
    /\ pc' = "returned"
    /\ UNCHANGED <<call, bucket_path, iter_order, memo>>

bucket_script_pipeline_agg ==
    /\ pc = "called"
    /\ call.fn = "bucket_script_pipeline_agg"
    /\ IF ArityMismatch(call.bucket_path_var, call.bucket_path_param)
       THEN \* panic!("Not the same amount of bucket path parts given.")
            /\ pc' = "panicked"
            /\ UNCHANGED <<bucket_path, iter_order, result>>
       ELSE LET m == InsertLoop(EmptyMap,
                                Zip(call.bucket_path_var, call.bucket_path_param))
                bucket_script == [script |-> call.script,
                                  bucket_path |-> m,
                                  gap_policy |-> call.gap_policy,
                                  format |-> call.format]
            IN  /\ bucket_path' = Some(m)
                /\ \E ord \in IterOrders(DOMAIN m) :
                     /\ iter_order' = ord
                     /\ result' = Some(JsonWrap("bucket_script",
                                         SerializeBucketScript(bucket_script, ord)))
                /\ pc' = "returned"
    /\ UNCHANGED <<call, memo>>

Next == avg_pipeline_agg \/ bucket_script_pipeline_agg

Spec == Init /\ [][Next]_vars

(* ------------------- repeated calls from one caller ------------------- *)

\* the calls enumerated when a caller makes several calls in a row
TwiceCalls ==
    AvgCalls({"b"}, GapPolicy, {0})
    \cup BucketScriptCalls({"x"}, SeqsUpTo({"a", "b"}, 2), SeqsUpTo(Paths, 2),
                           {Skip}, {})

\* the caller keeps the outcome of the call that just ended
Remember ==
    /\ pc \in {"returned", "panicked"}
    /\ memo' = Some([call |-> call, pc |-> pc, result |-> result,
                     iter_order |-> iter_order])
    /\ UNCHANGED <<pc, call, bucket_path, iter_order, result>>

\* the caller calls a builder again: the locals and the return value of the
\* previous call are gone, nothing of it is handed to the new call
Invoke(calls) ==
    /\ pc \in {"returned", "panicked"}
    /\ call' \in calls
    /\ pc' = "called"
    /\ bucket_path' = None
    /\ iter_order' = <<>>
    /\ result' = None
    /\ UNCHANGED memo

NextTwice ==
    \/ avg_pipeline_agg
    \/ bucket_script_pipeline_agg
    \/ Remember
    \/ Invoke(TwiceCalls)

InitTwice == InitOver(TwiceCalls)

SpecTwice == InitTwice /\ [][NextTwice]_vars

(* ------------------------- reading the result ------------------------- *)

IsAvg == call.fn = "avg_pipeline_agg"
IsBucketScript == call.fn = "bucket_script_pipeline_agg"
Ended == pc \in {"returned", "panicked"}

\* the field map under the document's operator key
FieldsOf(doc, name) == doc.v[name].v

\* the key set the optional inputs of the current call allow
OptionalKeys ==
    (IF call.gap_policy.some THEN {"gap_policy"} ELSE {})
    \cup (IF call.format.some THEN {"format"} ELSE {})

\* a document with the single top-level key name whose value is an object
SingleKeyObject(doc, name) ==
    /\ doc.t = "Object"
    /\ DOMAIN doc.v = {name}
    /\ doc.v[name].t = "Object"

Distinct(s) == \A i, j \in DOMAIN s : s[i] = s[j] => i = j

\* the greatest index at which name occurs in s
LastIndex(s, name) ==
    CHOOSE i \in DOMAIN s : s[i] = name /\ \A j \in DOMAIN s : s[j] = name => j <= i

(* ------------------------------- claims ------------------------------- *)

\* C1: avg_pipeline_agg returns a document whose only top-level key is
\* "avg_bucket" and whose field map has bucket_path always, gap_policy iff
\* gap_policy was supplied, format iff format was supplied, no other key, and
\* no null value.
C1_AvgKeySet ==
    (IsAvg /\ Ended) =>
        /\ result.some
        /\ SingleKeyObject(result.val, "avg_bucket")
        /\ LET f == FieldsOf(result.val, "avg_bucket")
           IN  /\ DOMAIN f = {"bucket_path"} \cup OptionalKeys
               /\ \A k \in DOMAIN f : f[k] # JNull

C1_Witness ==
    /\ IsAvg /\ pc = "returned"
    /\ ~call.gap_policy.some /\ call.format.some
    /\ DOMAIN FieldsOf(result.val, "avg_bucket") = {"bucket_path", "format"}

\* C2: when bucket_path_var and bucket_path_param differ in length,
\* bucket_script_pipeline_agg panics, returns no document, and the
\* bucket_path map has not been created, so no entry was inserted.
C2_UnequalLengthsPanic ==
    (IsBucketScript /\ Ended
        /\ Len(call.bucket_path_var) # Len(call.bucket_path_param)) =>
        /\ pc = "panicked"
        /\ result = None
        /\ bucket_path = None

C2_Witness ==
    /\ IsBucketScript /\ pc = "panicked"
    /\ Len(call.bucket_path_var) < Len(call.bucket_path_param)
    /\ Len(call.bucket_path_var) > 0
    /\ call.gap_policy.some /\ call.format.some

\* C3: for equal-length sequences bucket_script_pipeline_agg returns; when
\* the variable names are pairwise distinct the bucket_path field is an
\* object with exactly Len(bucket_path_var) entries that maps
\* bucket_path_var[i] to bucket_path_param[i] for every i.
C3_EqualLengthsMap ==
    (IsBucketScript /\ Ended
        /\ Len(call.bucket_path_var) = Len(call.bucket_path_param)) =>
        /\ pc = "returned"
        /\ result.some
        /\ "bucket_path" \in DOMAIN FieldsOf(result.val, "bucket_script")
        /\ LET bp == FieldsOf(result.val, "bucket_script")["bucket_path"]
           IN  /\ bp.t = "Object"
               /\ Distinct(call.bucket_path_var) =>
                    /\ Cardinality(DOMAIN bp.v) = Len(call.bucket_path_var)
                    /\ \A i \in DOMAIN call.bucket_path_var :
                         /\ call.bucket_path_var[i] \in DOMAIN bp.v
                         /\ bp.v[call.bucket_path_var[i]]
                              = JString(call.bucket_path_param[i])

C3_Witness ==
    /\ IsBucketScript /\ pc = "returned"
    /\ Len(call.bucket_path_var) >= 2
    /\ Distinct(call.bucket_path_var)
    /\ Cardinality(DOMAIN FieldsOf(result.val, "bucket_script")["bucket_path"].v)
         = Len(call.bucket_path_var)

\* C4 (as claimed): avg_pipeline_agg("b", Some(Skip), Some(2)) returns
\* {"avg_bucket": {"bucket_path": "b", "gap_policy": "skip", "format": 2}},
\* the gap policy as the lowercase token "skip".
C4_SkipIsLowercase ==
    (IsAvg /\ Ended /\ call.bucket_path = "b"
        /\ call.gap_policy = Some(Skip) /\ call.format = Some(2)) =>
        result = Some(JObject([avg_bucket |->
                    JObject([bucket_path |-> JString("b"),
                             gap_policy |-> JString("skip"),
                             format |-> JNumber(2)])]))

\* C5: when a variable name occurs more than once in equal-length sequences,
\* the call returns and the bucket_path field holds one entry per distinct
\* name, whose value is bucket_path_param[i] for the greatest i with
\* bucket_path_var[i] equal to that name.
C5_LastWriteWins ==
    (IsBucketScript /\ Ended
        /\ Len(call.bucket_path_var) = Len(call.bucket_path_param)
        /\ ~Distinct(call.bucket_path_var)) =>
        /\ pc = "returned"
        /\ LET bp == FieldsOf(result.val, "bucket_script")["bucket_path"].v
               names == {call.bucket_path_var[i] : i \in DOMAIN call.bucket_path_var}
           IN  /\ DOMAIN bp = names
               /\ \A n \in names :
                    bp[n] = JString(call.bucket_path_param[
                                        LastIndex(call.bucket_path_var, n)])

C5_Witness ==
    /\ IsBucketScript /\ pc = "returned"
    /\ call.bucket_path_var = <<"a", "a">>
    /\ call.bucket_path_param = <<"p1", "p2">>
    /\ FieldsOf(result.val, "bucket_script")["bucket_path"]
         = JObject([a |-> JString("p2")])

\* C6: every document bucket_script_pipeline_agg returns has the single
\* top-level key "bucket_script" and its field map has exactly the keys
\* script and bucket_path, plus gap_policy iff supplied and format iff
\* supplied.
C6_BucketScriptKeySet ==
    (IsBucketScript /\ pc = "returned") =>
        /\ result.some
        /\ SingleKeyObject(result.val, "bucket_script")
        /\ DOMAIN FieldsOf(result.val, "bucket_script")
             = {"script", "bucket_path"} \cup OptionalKeys

C6_Witness ==
    /\ IsBucketScript /\ pc = "returned"
    /\ call.gap_policy = None /\ call.format = None
    /\ DOMAIN FieldsOf(result.val, "bucket_script") = {"script", "bucket_path"}

\* C7: the emitted bucket_path (avg) and script (bucket-script) equal the
\* input string, a supplied format n is emitted as the number n (0 and
\* negative values included) and an absent format yields no format key.
C7_PassedThroughVerbatim ==
    pc = "returned" =>
        LET f == FieldsOf(result.val,
                          IF IsAvg THEN "avg_bucket" ELSE "bucket_script")
        IN  /\ IsAvg => f["bucket_path"] = JString(call.bucket_path)
            /\ IsBucketScript => f["script"] = JString(call.script)
            /\ call.format.some =>
                 /\ "format" \in DOMAIN f
                 /\ f["format"] = JNumber(call.format.val)
            /\ ~call.format.some => "format" \notin DOMAIN f

C7_Witness ==
    /\ IsAvg /\ pc = "returned"
    /\ call.format = Some(0)
    /\ FieldsOf(result.val, "avg_bucket")["format"] = JNumber(0)

C9_OnlyArityMismatchFails ==
    Ended =>
        /\ IsAvg => (pc = "returned" /\ result.some)
        /\ IsBucketScript =>
             (pc = "panicked"
                <=> Len(call.bucket_path_var) # Len(call.bucket_path_param))

C9_Witness ==
    /\ IsAvg /\ pc = "returned" /\ result.some
    /\ call.bucket_path = ""
    /\ call.gap_policy = None /\ call.format = None

\* C10: a supplied GapPolicy is emitted, by both builders, as the name of its
\* variant: Skip as "Skip", InsertZeros as "InsertZeros", two different
\* tokens and never a third.
C10_GapPolicyVariantName ==
    (pc = "returned" /\ call.gap_policy.some) =>
        LET g == FieldsOf(result.val,
                          IF IsAvg THEN "avg_bucket" ELSE "bucket_script")["gap_policy"]
        IN  /\ call.gap_policy.val = Skip => g = JString("Skip")
            /\ call.gap_policy.val = InsertZeros => g = JString("InsertZeros")
            /\ g \in {JString("Skip"), JString("InsertZeros")}

C10_Witness ==
    /\ IsBucketScript /\ pc = "returned"
    /\ call.gap_policy = Some(InsertZeros)
    /\ FieldsOf(result.val, "bucket_script")["gap_policy"] = JString("InsertZeros")

====
